---- MODULE Spec2Model ----
(***************************************************************************)
(* HTLCSimulator of htlc_implementation.py: the simulator object built by  *)
(* __init__, the locking script the harness renders for it, and the two    *)
(* evaluations validate_alice_claim and validate_bob_refund.               *)
(*                                                                         *)
(* Python values handed to the evaluations are tagged with their type, so  *)
(* that a call with a value that is no str (or no int) takes the path the  *)
(* interpreter takes: .encode() and >= raise.                              *)
(***************************************************************************)
EXTENDS Integers, Sequences, FiniteSets

\* Largest block height and timeout the model enumerates (0..MaxHeight).
MaxHeight == 2

VARIABLES
    secret,             \* self.secret
    secret_hash,        \* self.secret_hash
    alice_pubkey,       \* self.alice_pubkey
    bob_pubkey,         \* self.bob_pubkey
    alice_pubkey_hash,  \* self.alice_pubkey_hash
    bob_pubkey_hash,    \* self.bob_pubkey_hash
    current_block,      \* self.current_block
    htlc_script,        \* the values create_htlc_script embeds in the locking script
    call,               \* the evaluation made last and its arguments
    outcome,            \* "none" | "returned" | the exception the call raised
    verdict,            \* the value returned, as a record of its parts
    printed,            \* the sub-check lines the call printed, in order
    prev                \* the evaluation made before the last one, when it succeeded

vars == <<secret, secret_hash, alice_pubkey, bob_pubkey, alice_pubkey_hash,
          bob_pubkey_hash, current_block, htlc_script, call, outcome, verdict,
          printed, prev>>

simulator == <<secret, secret_hash, alice_pubkey, bob_pubkey, alice_pubkey_hash,
               bob_pubkey_hash, current_block>>

----------------------------------------------------------------------------
\* Python values

PyStr(x) == [type |-> "str", s |-> x, n |-> 0]
PyInt(x) == [type |-> "int", s |-> "", n |-> x]
PyNone == [type |-> "NoneType", s |-> "", n |-> 0]

\* The secrets and keys of the repository's tests, and the empty string.
Secrets == {"", "test_secret_123", "wrong_secret"}
Keys == {"", "alice_key", "bob_key"}

Heights == 0..MaxHeight

\* What a caller may pass where a string is expected, and where a height is.
SecretArgs == {PyStr(x) : x \in Secrets} \cup {PyNone}
KeyArgs == {PyStr(x) : x \in Keys} \cup {PyNone}
HeightArgs == {PyInt(x) : x \in Heights} \cup {PyNone}

----------------------------------------------------------------------------
\* The digests, as hashlib computes them on Secrets and Keys.

\* hashlib.sha256(x.encode()).hexdigest()
sha256_hexdigest(x) ==
    CASE x = "" -> "e3b0c44298fc1c149afbf4c8996fb92427ae41e4649b934ca495991b7852b855"
      [] x = "alice_key" -> "d129fa716698153572e0f19767fdeac8313330d65d45e96b6be8c365d83910a8"
      [] x = "bob_key" -> "8ef731e6c291f4d813bd41ec3663a334af3024deceec11da788e1cfd4ed0b425"
      [] x = "test_secret_123" -> "0d044d2372b9ef90539beec149f765d8c1296e031e52582518420538876de85e"
      [] x = "wrong_secret" -> "8f36af649c8ac9d7a98b2793faf188d5fd073fb6a67e9db192a63466df17e9ed"

\* HTLCSimulator.hash160: RIPEMD160(SHA256(data.encode())).hexdigest()
hash160(data) ==
    CASE data = "" -> "b472a266d0bd89c13706a4132ccfb16f7c3b9fcb"
      [] data = "alice_key" -> "c4b8dce05dfd3b1df11e3e04925999bd09941a4d"
      [] data = "bob_key" -> "3aaed09a5cca487c80485fed97df286f3920d0c0"
      [] data = "test_secret_123" -> "0f92967826ccdb333b1f1352bcfb407d47ec8436"
      [] data = "wrong_secret" -> "33d1598d02197819a789fb010c688e9c97399212"

----------------------------------------------------------------------------
\* Construction

\* create_htlc_script: the four values interpolated into the script text.
create_htlc_script(sh, ah, bh, timeout_blocks) ==
    [secret_hash |-> sh, alice_pubkey_hash |-> ah, bob_pubkey_hash |-> bh,
     timeout_blocks |-> timeout_blocks]

\* HTLCSimulator.__init__ on three strings: no check of the arguments, no
\* timeout among them.
HTLCSimulator_init(s, a, b) ==
    /\ secret = s
    /\ secret_hash = sha256_hexdigest(s)
    /\ alice_pubkey = a
    /\ bob_pubkey = b
    /\ alice_pubkey_hash = hash160(a)
    /\ bob_pubkey_hash = hash160(b)
    /\ current_block = 0

NoCall ==
    [op |-> "none", provided_secret |-> PyNone, provided_pubkey |-> PyNone,
     block_height |-> PyNone, timeout_blocks |-> PyNone]

\* The harness's setup: a simulator, and the script rendered from its hashes
\* and the harness's timeout.
Init ==
    /\ \E s \in Secrets, a \in Keys, b \in Keys : HTLCSimulator_init(s, a, b)
    /\ \E t \in Heights :
         htlc_script = create_htlc_script(secret_hash, alice_pubkey_hash,
                                          bob_pubkey_hash, t)
    /\ call = NoCall
    /\ outcome = "none"
    /\ verdict = [authorized |-> FALSE]
    /\ printed = <<>>
    /\ prev = "none"

----------------------------------------------------------------------------
\* The evaluations

Line(label, value) == [label |-> label, value |-> value]

\* secret_valid = provided_hash == self.secret_hash
SecretValid(provided_secret) == sha256_hexdigest(provided_secret) = secret_hash

\* Variant: the claim path compares against the refund party's hash.
ClaimPubkeyHashWrongParty(provided_pubkey) == hash160(provided_pubkey) = bob_pubkey_hash

\* pubkey_hash_valid = self.hash160(provided_pubkey) == self.alice_pubkey_hash
ClaimPubkeyHashValid(provided_pubkey) == hash160(provided_pubkey) = alice_pubkey_hash

\* pubkey_hash_valid = self.hash160(provided_pubkey) == self.bob_pubkey_hash
RefundPubkeyHashValid(provided_pubkey) == hash160(provided_pubkey) = bob_pubkey_hash

\* Variant: the identity sub-check is left out of the result.
ClaimSuccessSecretOnly(secret_valid, pubkey_hash_valid) == secret_valid

\* Variant: a claim is refused once the evaluation before it was a successful
\* refund (cross-path exclusivity).
ClaimSuccessExclusive(secret_valid, pubkey_hash_valid) ==
    /\ secret_valid
    /\ pubkey_hash_valid
    /\ ~(call.op = "refund" /\ outcome = "returned" /\ verdict.authorized)

\* success = secret_valid and pubkey_hash_valid
ClaimSuccess(secret_valid, pubkey_hash_valid) == secret_valid /\ pubkey_hash_valid

\* Variant: an exclusive boundary.
TimeoutPassedStrict(block_height, timeout_blocks) == block_height > timeout_blocks

\* timeout_passed = block_height >= timeout_blocks
TimeoutPassed(block_height, timeout_blocks) == block_height >= timeout_blocks

\* Variant: the identity sub-check is left out of the result.
RefundSuccessTimeoutOnly(timeout_passed, pubkey_hash_valid) == timeout_passed

\* success = timeout_passed and pubkey_hash_valid
RefundSuccess(timeout_passed, pubkey_hash_valid) == timeout_passed /\ pubkey_hash_valid

\* The sub-check lines validate_alice_claim prints when it runs to its end.
ClaimPrinted(secret_valid, pubkey_valid, pubkey_hash_valid) ==
    <<Line("Secret Hash Match", secret_valid),
      Line("Public Key Match", pubkey_valid),
      Line("Public Key Hash Match", pubkey_hash_valid)>>

\* The sub-check lines validate_bob_refund prints when it runs to its end.
RefundPrinted(timeout_passed, pubkey_valid, pubkey_hash_valid) ==
    <<Line("Timeout Check", timeout_passed),
      Line("Public Key Match", pubkey_valid),
      Line("Public Key Hash Match", pubkey_hash_valid)>>

\* Variant: an evaluation records the height it was given in self.current_block.
SimulatorTracksBlock ==
    /\ UNCHANGED <<secret, secret_hash, alice_pubkey, bob_pubkey,
                   alice_pubkey_hash, bob_pubkey_hash>>
    /\ current_block' = IF call'.block_height.type = "int"
                        THEN call'.block_height.n ELSE current_block

\* Neither evaluation assigns to a field of self.
SimulatorUnchanged == UNCHANGED simulator

\* The evaluations follow one another on one simulator: the one before this
\* one ("claim" or "refund") when it returned True, "none" otherwise.
Remember ==
    prev' = IF outcome = "returned" /\ verdict.authorized THEN call.op ELSE "none"

Raise(exception, lines) ==
    /\ outcome' = exception
    /\ verdict' = [authorized |-> FALSE]
    /\ printed' = lines

Return(success, lines) ==
    /\ outcome' = "returned"
    /\ verdict' = [authorized |-> success]
    /\ printed' = lines

\* HTLCSimulator.validate_alice_claim(provided_secret, provided_pubkey, block_height)
ValidateAliceClaim(provided_secret, provided_pubkey, block_height) ==
    /\ call' = [op |-> "claim", provided_secret |-> provided_secret,
                provided_pubkey |-> provided_pubkey,
                block_height |-> block_height, timeout_blocks |-> PyNone]
    /\ Remember
    /\ SimulatorUnchanged
    /\ UNCHANGED htlc_script
    /\ IF provided_secret.type # "str"
       THEN \* provided_secret.encode()
            Raise("AttributeError", <<>>)
       ELSE LET secret_valid == SecretValid(provided_secret.s)
                pubkey_valid == provided_pubkey = PyStr(alice_pubkey)
            IN  IF provided_pubkey.type # "str"
                THEN \* data.encode() in hash160, after the secret's lines
                     Raise("AttributeError", <<Line("Secret Hash Match", secret_valid)>>)
                ELSE LET pubkey_hash_valid == ClaimPubkeyHashValid(provided_pubkey.s)
                     IN  Return(ClaimSuccess(secret_valid, pubkey_hash_valid),
                                ClaimPrinted(secret_valid, pubkey_valid, pubkey_hash_valid))

\* HTLCSimulator.validate_bob_refund(provided_pubkey, block_height, timeout_blocks)
ValidateBobRefund(provided_pubkey, block_height, timeout_blocks) ==
    /\ call' = [op |-> "refund", provided_secret |-> PyNone,
                provided_pubkey |-> provided_pubkey,
                block_height |-> block_height, timeout_blocks |-> timeout_blocks]
    /\ Remember
    /\ SimulatorUnchanged
    /\ UNCHANGED htlc_script
    /\ IF block_height.type # "int" \/ timeout_blocks.type # "int"
       THEN \* block_height >= timeout_blocks
            Raise("TypeError", <<>>)
       ELSE LET timeout_passed == TimeoutPassed(block_height.n, timeout_blocks.n)
                pubkey_valid == provided_pubkey = PyStr(bob_pubkey)
            IN  IF provided_pubkey.type # "str"
                THEN \* data.encode() in hash160, after the timeout's lines
                     Raise("AttributeError", <<Line("Timeout Check", timeout_passed)>>)
                ELSE LET pubkey_hash_valid == RefundPubkeyHashValid(provided_pubkey.s)
                     IN  Return(RefundSuccess(timeout_passed, pubkey_hash_valid),
                                RefundPrinted(timeout_passed, pubkey_valid, pubkey_hash_valid))

Claim == \E s \in SecretArgs, k \in KeyArgs, h \in HeightArgs : ValidateAliceClaim(s, k, h)

Refund == \E k \in KeyArgs, h \in HeightArgs, t \in HeightArgs : ValidateBobRefund(k, h, t)

Next == Claim \/ Refund

Spec == Init /\ [][Next]_vars

----------------------------------------------------------------------------
\* Properties

Authorized == outcome = "returned" /\ verdict.authorized

IntHeights == call.block_height.type = "int" /\ call.timeout_blocks.type = "int"

\* C1: a claim evaluation is authorized if and only if the candidate secret
\* is the secret given at creation and the candidate identity is the claimant
\* identity given at creation, whatever block height is passed (below, at or
\* above the timeout).
C1_ClaimCorrectness ==
    call.op = "claim" =>
        (Authorized <=> /\ call.provided_secret = PyStr(secret)
                        /\ call.provided_pubkey = PyStr(alice_pubkey))

\* A correct claim authorized at a height above the script's timeout.
C1_Witness ==
    /\ call.op = "claim"
    /\ Authorized
    /\ call.block_height.type = "int"
    /\ call.block_height.n > htlc_script.timeout_blocks

\* C2: with the correct refund identity and timeout T, a refund evaluation
\* is refused at every height below T and authorized at T and at every
\* height above it.
C2_RefundBoundary ==
    (call.op = "refund" /\ call.provided_pubkey = PyStr(bob_pubkey) /\ IntHeights) =>
        (Authorized <=> call.block_height.n >= call.timeout_blocks.n)

\* A refund authorized at exactly the script's timeout, which is not 0.
C2_Witness ==
    /\ call.op = "refund"
    /\ Authorized
    /\ call.timeout_blocks = PyInt(htlc_script.timeout_blocks)
    /\ call.block_height = call.timeout_blocks
    /\ call.timeout_blocks.n > 0

\* C3 as stated: for every contract, a claim presented with the refund
\* party's identity is refused even with the correct secret, and a refund
\* presented with the claimant's identity is refused even at or after the
\* timeout.
C3_IsolationEveryContract ==
    /\ (call.op = "claim" /\ call.provided_pubkey = PyStr(bob_pubkey)) => ~Authorized
    /\ (call.op = "refund" /\ call.provided_pubkey = PyStr(alice_pubkey)) => ~Authorized

\* C3, amended: the same for every contract whose claimant and refund
\* identities differ.
C3_IsolationDistinctIdentities ==
    alice_pubkey # bob_pubkey =>
        /\ (call.op = "claim" /\ call.provided_pubkey = PyStr(bob_pubkey)) => ~Authorized
        /\ (call.op = "refund" /\ call.provided_pubkey = PyStr(alice_pubkey)) => ~Authorized

\* A claim with the correct secret and the refund party's identity, refused.
C3_Witness ==
    /\ alice_pubkey # bob_pubkey
    /\ call.op = "claim"
    /\ call.provided_secret = PyStr(secret)
    /\ call.provided_pubkey = PyStr(bob_pubkey)
    /\ outcome = "returned"
    /\ ~verdict.authorized

\* C4: no refund evaluation on a contract created with timeout T is
\* authorized at a height below T, whatever the caller passes.
C4_RefundNeverBelowContractTimeout ==
    (call.op = "refund" /\ Authorized) =>
        call.block_height.n >= htlc_script.timeout_blocks

\* C5: no contract exists whose secret, claimant identity or refund identity
\* is empty, or whose timeout is negative.
C5_CreationRejectsInvalidInput ==
    /\ secret # ""
    /\ alice_pubkey # ""
    /\ bob_pubkey # ""
    /\ htlc_script.timeout_blocks >= 0

\* C6: neither evaluation raises, whatever the values passed.
C6_EvaluationsTotal == outcome \in {"none", "returned"}

\* C7: the value an evaluation returns carries, besides the authorized
\* boolean, the result of each sub-check in order (reasons); the code returns
\* the boolean alone and reports the sub-checks by print.
C7_VerdictCarriesReasons ==
    outcome = "returned" => {"authorized", "reasons"} \subseteq DOMAIN verdict

\* C8: after any earlier evaluations, among them an authorized one on the
\* other path, a claim with the correct secret and claimant identity is
\* authorized, and a refund with the correct refund identity at a height at
\* or above the timeout is authorized.
C8_NonExclusive ==
    /\ (/\ call.op = "claim"
        /\ call.provided_secret = PyStr(secret)
        /\ call.provided_pubkey = PyStr(alice_pubkey)) => Authorized
    /\ (/\ call.op = "refund"
        /\ call.provided_pubkey = PyStr(bob_pubkey)
        /\ IntHeights
        /\ call.block_height.n >= call.timeout_blocks.n) => Authorized

\* A claim authorized at a height at or above the timeout, right after an
\* authorized refund.
C8_Witness ==
    /\ prev = "refund"
    /\ call.op = "claim"
    /\ Authorized
    /\ call.block_height.type = "int"
    /\ call.block_height.n >= htlc_script.timeout_blocks

\* C9: every evaluation, successful or failed, leaves every field of the
\* simulator (and the script) as it was, and an evaluation repeated with the
\* same evidence returns the same verdict.
C9_ContractUnchanged ==
    [][/\ simulator' = simulator
       /\ htlc_script' = htlc_script
       /\ call' = call => (outcome' = outcome /\ verdict' = verdict)]_vars

\* A successful claim has been followed by a claim, and current_block is
\* still the 0 of creation.
C9_Witness ==
    /\ prev = "claim"
    /\ call.op = "claim"
    /\ call.block_height.type = "int"
    /\ call.block_height.n > 0
    /\ current_block = 0

\* C10: a refund evaluation is authorized if and only if the height is at or
\* above the timeout and the candidate identity is the refund identity given
\* at creation; the contract's secret plays no part.
C10_RefundSecretIndependent ==
    call.op = "refund" =>
        (Authorized <=> /\ IntHeights
                        /\ call.block_height.n >= call.timeout_blocks.n
                        /\ call.provided_pubkey = PyStr(bob_pubkey))

\* A refund authorized on a contract with a non-empty secret, no claim
\* having succeeded before it.
C10_Witness ==
    /\ call.op = "refund"
    /\ Authorized
    /\ prev = "none"
    /\ secret = "test_secret_123"

====
